---- MODULE Spec2Model ----
(***************************************************************************)
(* A model of ifmt.py, a text reflow program.  A string is a sequence of   *)
(* one-character strings; a token list is a sequence of strings; the       *)
(* output stream is the sequence of physical lines written so far.         *)
(***************************************************************************)
EXTENDS Integers, Sequences, FiniteSets, TLC

\* ------------------------------------------------------------------ strings

\* The whitespace characters of the model's alphabet (string.whitespace
\* restricted to the characters that can occur inside a line).
Whitespace == {" ", "\t"}

Min(a, b) == IF a < b THEN a ELSE b

\* Python's s[a:b] for 0 <= a, with b clamped to len(s).
Slice(s, a, b) == SubSeq(s, a + 1, Min(b, Len(s)))

\* Python's s[a:].
From(s, a) == SubSeq(s, a + 1, Len(s))

RECURSIVE Concat(_)
\* The characters of a list of words written one after another.
Concat(ws) == IF ws = <<>> THEN <<>> ELSE Head(ws) \o Concat(Tail(ws))

\* is_whitespace: every character is whitespace (true of the empty word).
is_whitespace(word) == \A i \in 1..Len(word) : word[i] \in Whitespace

RECURSIVE rstrip(_)
\* str.rstrip(): drop the trailing whitespace of the line.
rstrip(line) ==
    IF line # <<>> /\ line[Len(line)] \in Whitespace
    THEN rstrip(SubSeq(line, 1, Len(line) - 1))
    ELSE line

RECURSIVE SkipWs(_, _)
\* The 0-based index of the first character at or after i that is not
\* whitespace (len(line) when there is none): the scanning loops of
\* guess_prefix.
SkipWs(line, i) ==
    IF i < Len(line) /\ line[i + 1] \in Whitespace THEN SkipWs(line, i + 1) ELSE i

\* The value standing for an IndexError raised by line[i].
Raised == <<"IndexError">>

\* The three preprocessor tests of guess_prefix, made on line[0:7] and
\* line[0:6], that is from column 0 of the line.
IsDirective(line, i) ==
    \/ Slice(line, 0, 7) = <<"#", "i", "f", "n", "d", "e", "f">>
    \/ Slice(line, 0, 6) = <<"#", "i", "f", "d", "e", "f">>
    \/ Slice(line, 0, 6) = <<"#", "e", "n", "d", "i", "f">>

\* guess_prefix(line).
guess_prefix(line) ==
    IF Len(line) = 0 THEN <<>>
    ELSE LET i == SkipWs(line, 0) IN
         IF Slice(line, i, i + 3) = <<"/", "/", " ">> THEN Slice(line, 0, i + 3)
         ELSE IF Slice(line, i, i + 2) = <<"/", "/">> THEN Slice(line, 0, i + 2)
         ELSE IF Slice(line, i, i + 2) = <<"#", " ">> THEN Slice(line, 0, i + 2)
         ELSE IF i >= Len(line) THEN Raised
         ELSE IF line[i + 1] = "#"
              THEN IF IsDirective(line, i) THEN <<>> ELSE Slice(line, 0, i + 1)
         ELSE IF line[i + 1] = "*" THEN Slice(line, 0, SkipWs(line, i + 1))
         ELSE Slice(line, 0, i)

\* next_prefix(prefix): every '*' of a bullet prefix becomes a space.
next_prefix(prefix) ==
    IF \E i \in 1..Len(prefix) : prefix[i] = "*"
    THEN [i \in 1..Len(prefix) |-> IF prefix[i] = "*" THEN " " ELSE prefix[i]]
    ELSE prefix

\* The column after one character written at column current_cols.
CharCols(char, current_cols, tabstop) ==
    IF char = "\t" THEN current_cols + (tabstop - (current_cols % tabstop))
    ELSE current_cols + 1

RECURSIVE add_cols(_, _, _)
\* add_cols(word, current_cols, context).
add_cols(word, current_cols, context) ==
    IF word = <<>> THEN current_cols
    ELSE add_cols(Tail(word), CharCols(Head(word), current_cols, context.tabstop), context)

Spaces(n) == [i \in 1..n |-> " "]

RECURSIVE retab(_, _, _)
\* retab(word, offset, tabstop): every tab becomes the spaces that reach the
\* next tab stop from offset (the same offset for every tab of the word).
retab(word, offset, tabstop) ==
    IF word = <<>> THEN <<>>
    ELSE (IF Head(word) = "\t" THEN Spaces(tabstop - (offset % tabstop)) ELSE <<Head(word)>>)
         \o retab(Tail(word), offset, tabstop)

\* The split of a text from the splits a and b of its two halves: the last
\* word of a and the first word of b are one word, and when both are empty
\* the whitespace runs around them are one run.
JoinSplit(a, b) ==
    LET word == a[Len(a)] \o b[1]
    IN  IF word = <<>> /\ Len(a) >= 3 /\ Len(b) >= 3
        THEN SubSeq(a, 1, Len(a) - 2) \o <<a[Len(a) - 1] \o b[2]>> \o SubSeq(b, 3, Len(b))
        ELSE SubSeq(a, 1, Len(a) - 1) \o <<word>> \o Tail(b)

RECURSIVE re_split(_)
\* re.split(r'(\s+)', text): the words and the whitespace runs between them,
\* alternating, starting and ending with a (possibly empty) word.  Computed
\* by halving the text, so that a long line is split in few nested steps.
re_split(text) ==
    IF Len(text) = 0 THEN <<<<>>>>
    ELSE IF Len(text) = 1
    THEN IF text[1] \in Whitespace THEN <<<<>>, text, <<>>>> ELSE <<text>>
    ELSE LET half == Len(text) \div 2
         IN  JoinSplit(re_split(SubSeq(text, 1, half)), re_split(From(text, half)))

\* ------------------------------------------------------- print_words_as_line

RECURSIVE LastWord(_, _)
\* The number of leading words of words[1..i] that are printed: the position
\* of the last word that is not whitespace (0 when there is none).  A
\* whitespace word is printed only when a non-whitespace word follows it.
LastWord(words, i) ==
    IF i = 0 THEN 0
    ELSE IF ~is_whitespace(words[i]) THEN i
    ELSE LastWord(words, i - 1)

\* printed_words before justification.
Finalize(words) == SubSeq(words, 1, LastWord(words, Len(words)))

RECURSIVE RetabAll(_, _, _)
\* The first loop of the justification: every printed word is retabbed at
\* the column reached so far, counted from 0 (the prefix is not counted).
RetabAll(printed, cols, context) ==
    IF printed = <<>> THEN <<>>
    ELSE LET w == retab(Head(printed), cols, context.tabstop)
         IN  <<w>> \o RetabAll(Tail(printed), add_cols(w, cols, context), context)

\* int(x) for the rational x = num / den with den > 0: truncation towards 0.
TruncDiv(num, den) == IF num >= 0 THEN num \div den ELSE -((-num) \div den)

\* int((original_words-1) - (float(i)/deficit)*(original_words-2)).
FillIndex(i, deficit, original_words) ==
    TruncDiv((original_words - 1) * deficit - i * (original_words - 2), deficit)

\* list.insert(index, x): a negative index counts from the end, and the
\* index is clamped to the list.
ListInsert(list, index, x) ==
    LET j == IF index < 0 THEN index + Len(list) ELSE index
        k == IF j < 0 THEN 0 ELSE Min(j, Len(list))
    IN  SubSeq(list, 1, k) \o <<x>> \o SubSeq(list, k + 1, Len(list))

RECURSIVE FillLoop(_, _, _, _)
\* The filler loop: while i < deficit, insert one space at FillIndex.
FillLoop(printed, i, deficit, original_words) ==
    IF i < deficit
    THEN FillLoop(ListInsert(printed, FillIndex(i, deficit, original_words), <<" ">>),
                  i + 1, deficit, original_words)
    ELSE printed

\* Whether print_words_as_line justifies.
Justifies(context) == context.justify /\ context.flow

\* print_words_as_line(words, context): the physical line written, as a
\* record of the prefix and the words written after it, together with what
\* the justification computed (n = original_words; fills = the indexes at
\* which the filler spaces were inserted).
print_words_as_line(words, context) ==
    LET printed == Finalize(words)
        retabbed == RetabAll(printed, 0, context)
        cols == add_cols(Concat(retabbed), 0, context)
        deficit == context.width - cols
        n == Len(printed)
    IN  IF Justifies(context)
        THEN [prefix |-> context.prefix, slice |-> words, just |-> TRUE,
              n |-> n, deficit |-> deficit,
              fills |-> [i \in 1..(IF deficit > 0 THEN deficit ELSE 0) |->
                            FillIndex(i - 1, deficit, n)],
              words |-> FillLoop(retabbed, 0, deficit, n)]
        ELSE [prefix |-> context.prefix, slice |-> words, just |-> FALSE,
              n |-> n, deficit |-> 0, fills |-> <<>>, words |-> printed]

\* The characters of a physical line, without its newline.
LineText(rec) == rec.prefix \o Concat(rec.words)

\* ------------------------------------------------------------ process_words

\* The words packed by a call: the underflow of the last line is inserted,
\* word by word, in front of the words given.
Prepend(underflow, words) == underflow \o words

\* A wrong test for room, late by one column.
NoRoomLate(cols, context) == cols > context.width + 1

\* The test that there is no more room: cols > context['width'].
NoRoom(cols, context) == cols > context.width

RECURSIVE Scan(_, _, _, _)
\* The packing loop from the word at 0-based index word_index, already
\* placed, with cols the column reached: the index of the first word for
\* which there is no room, or len(words) when every word was placed.
Scan(words, word_index, cols, context) ==
    LET next == word_index + 1 IN
    IF next >= Len(words) THEN Len(words)
    ELSE LET c == add_cols(words[next + 1], cols, context)
         IN  IF NoRoom(c, context) THEN next ELSE Scan(words, next, c, context)

RECURSIVE SkipWords(_, _)
\* The index of the first word at or after word_index that is not
\* whitespace (len(words) when there is none).
SkipWords(words, word_index) ==
    IF word_index < Len(words) /\ is_whitespace(words[word_index + 1])
    THEN SkipWords(words, word_index + 1)
    ELSE word_index

\* A wrong slice for the recursive call, which loses the word there was no
\* room for.
RemainingAfter(words, word_index) == From(words, word_index + 1)

\* The words a recursive call of process_words is given.
Remaining(words, word_index) == From(words, word_index)

\* Whether a line with room left is kept as underflow rather than printed.
Defers(context) == context.flow

\* The underflow stored for a line with room left.
Deferred(words) == Append(words, <<" ">>)

RECURSIVE process_words(_, _, _)
\* process_words(words, context).  eff collects what the calls do: out, the
\* physical lines written, and calls, one record for every call made.  The
\* result is the context returned and the effects.  The interpreter's stack
\* is not followed here but in Turn, where the calls are taken one by one.
process_words(given, context0, eff0) ==
    LET words == Prepend(context0.underflow, given)
        context == [context0 EXCEPT !.underflow = <<>>]
        eff == [eff0 EXCEPT !.calls =
                    Append(@, [given |-> given, underflow |-> context0.underflow,
                               packed |-> words, flow |-> context0.flow])]
        Write(e, line) == [e EXCEPT !.out = Append(@, line)]
    IN
    IF Len(words) = 0
    THEN [context |-> context, eff |-> Write(eff, print_words_as_line(words, context))]
    ELSE
    LET c0 == IF context.prefix # <<>> THEN add_cols(context.prefix, 0, context) ELSE 0
        c1 == add_cols(words[1], c0, context)
        word_index == Scan(words, 0, c1, context)
    IN
    IF word_index >= Len(words)
    THEN IF Defers(context)
         THEN [context |-> [context EXCEPT !.underflow = Deferred(words)], eff |-> eff]
         ELSE [context |-> context,
               eff |-> Write(eff, print_words_as_line(words, context))]
    ELSE
    LET eff1 == Write(eff, print_words_as_line(Slice(words, 0, word_index), context))
        rest == SkipWords(words, word_index)
        context1 == [context EXCEPT !.prefix = next_prefix(context.prefix)]
    IN  IF rest >= Len(words) THEN [context |-> context1, eff |-> eff1]
        ELSE process_words(Remaining(words, rest), context1, eff1)

\* A resolve_context that forgets to set flow again.
FlowLeftOff(flow) == FALSE

\* The value of context['flow'] after resolve_context has printed the
\* underflow.
FlowAfterResolve(flow) == TRUE

\* resolve_context(context): print the underflow left by the last line.
resolve_context(context, eff) ==
    IF context.underflow # <<>>
    THEN LET r == process_words(<<>>, [context EXCEPT !.flow = FALSE], eff)
         IN  [context |-> [r.context EXCEPT !.flow = FlowAfterResolve(context.flow)],
              eff |-> r.eff]
    ELSE [context |-> context, eff |-> eff]

\* ------------------------------------------------------------- process_line

\* The line process_line works on: the input line without its trailing
\* whitespace.
Stripped(line) == rstrip(line)

\* all_whitespace: no word of the line is a non-whitespace word.
AllWhitespace(words) == \A i \in 1..Len(words) : is_whitespace(words[i])

\* Whether process_line resolves the context of the previous line.
MustResolve(prefix, words, context) ==
    prefix # next_prefix(context.prefix) \/ AllWhitespace(words)

\* What process_line does between the resolution and its call of
\* process_words: the prefix is taken over when the context was resolved,
\* and --code sets flow for a line whose prefix is not whitespace.
AfterResolve(ctx, prefix, resolve) ==
    [ctx EXCEPT !.prefix = IF resolve THEN prefix ELSE @,
                !.flow = IF ctx.code THEN ~is_whitespace(prefix) ELSE @]

\* process_line(line, context), from a stream with the effects eff so far.
\* The result also tells whether guess_prefix raised, the prefix guessed,
\* whether it was taken over (adopted), the context left by the resolution
\* (resolved) and the number of lines the resolution wrote (mark).
process_line(raw, context, eff) ==
    LET line == Stripped(raw)
        prefix == guess_prefix(line)
    IN
    IF prefix = Raised
    THEN [context |-> context, eff |-> eff, raised |-> TRUE, mark |-> Len(eff.out),
          adopted |-> FALSE, prefix |-> prefix, resolved |-> context]
    ELSE
    LET words == re_split(From(line, Len(prefix)))
        resolve == MustResolve(prefix, words, context)
        r1 == IF resolve THEN resolve_context(context, eff)
              ELSE [context |-> context, eff |-> eff]
        r2 == process_words(words, AfterResolve(r1.context, prefix, resolve), r1.eff)
    IN  [context |-> r2.context, eff |-> r2.eff, raised |-> FALSE,
         mark |-> Len(r1.eff.out), adopted |-> resolve, prefix |-> prefix,
         resolved |-> r1.context]

\* ------------------------------------------------------------- the document

\* The effects of a run that has done nothing yet.
NoEffects == [out |-> <<>>, calls |-> <<>>]

\* The starting context of the main loop for a configuration.
StartContext(flow, justify, width, tabstop, code) ==
    [flow |-> flow, justify |-> justify, width |-> width, tabstop |-> tabstop,
     prefix |-> <<>>, code |-> code, underflow |-> <<>>]

RECURSIVE ProcessLines(_, _, _)
\* The main loop: process_line on every line of the document in turn.
ProcessLines(doc, context, eff) ==
    IF doc = <<>> THEN [context |-> context, eff |-> eff]
    ELSE LET r == process_line(Head(doc), context, eff)
         IN  ProcessLines(Tail(doc), r.context, r.eff)

\* The text of the physical lines of an output stream.
Texts(out) == [i \in 1..Len(out) |-> LineText(out[i])]

\* The output of a whole run on a document: the main loop, then the final
\* resolve_context.
Format(doc, context) ==
    LET r == ProcessLines(doc, context, NoEffects)
    IN  Texts(resolve_context(r.context, r.eff).eff.out)

\* ------------------------------------------------------------------ inputs

\* The longest document read.
MaxLines == 2

\* The widths and the tab stops of the configurations.
Widths == {3, 4}
Tabstops == {2}

\* The four configurations of the flags the argument parser allows: none,
\* --flow, --justify (which sets flow) and --code.
Modes == {"plain", "flow", "justify", "code"}

\* What may stand before the text of an input line: nothing, an indent, a
\* bullet, a comment mark.
Leads == {<<>>, <<" ">>, <<"*">>, <<"#">>}

\* The words and the gaps of the text of an input line.
Words == {<<"a">>, <<"b", "b", "b", "b">>}
Gaps == {<<" ">>, <<"\t">>}

\* The text of an input line: nothing, a word, or the short word, a gap and
\* a word.
Bodies == {<<>>} \cup Words \cup {<<"a">> \o g \o w : g \in Gaps, w \in Words}

\* The input lines (without their newline).
Lines == {l \o b : l \in Leads, b \in Bodies}

\* ------------------------------------------------------------- the program

VARIABLES
    context,    \* the context dictionary of the main loop
    output,     \* the physical lines written to the output stream
    pc,         \* "reading" in the main loop, "done" after the final resolve_context,
                \* "raised" when an exception has ended the run
    nlines,     \* the number of input lines read
    error,      \* whether a call raised
    owner,      \* owner[i]: the block of input lines that output[i] belongs to
    blocks,     \* blocks[b]: the prefix taken over when block b began
    inWords,    \* the non-whitespace words read after the prefixes of the input lines
    last,       \* what the last operation did
    start,      \* the starting context of the run
    frame,      \* the running call of process_words, when its steps are followed
    cont,       \* where that call returns to
    pend,       \* the line process_line is working on while the context is resolved
    doc,        \* the input lines read, when the steps are followed
    probe       \* a line given to guess_prefix, and the prefix returned

ghost == <<owner, blocks, inWords, last>>
steps == <<frame, cont, pend, doc>>
vars == <<context, output, pc, nlines, error, owner, blocks, inWords, last, start,
          frame, cont, pend, doc, probe>>

\* No call of process_words is running.
NoFrame == [given |-> <<>>, words |-> <<>>, word_index |-> 0, cols |-> 0, depth |-> 0]
NoLine == [prefix |-> <<>>, words |-> <<>>]
NoProbe == [line |-> <<>>, prefix |-> <<>>, called |-> FALSE]
NoLast == [op |-> "none", blank |-> FALSE, before |-> start, first |-> 1,
           adopted |-> FALSE, resolved |-> start, mark |-> 0, calls |-> <<>>]

\* The non-whitespace words of a token list, in order.
RealWords(words) == SelectSeq(words, LAMBDA w : ~is_whitespace(w))

Init ==
    /\ \E m \in Modes, w \in Widths, t \in Tabstops :
          start = StartContext(m \in {"flow", "justify"}, m = "justify", w, t, m = "code")
    /\ context = start
    /\ output = <<>>
    /\ pc = "reading"
    /\ nlines = 0
    /\ error = FALSE
    /\ owner = <<>>
    /\ blocks = <<<<>>>>
    /\ inWords = <<>>
    /\ last = NoLast
    /\ frame = NoFrame
    /\ cont = "none"
    /\ pend = NoLine
    /\ doc = <<>>
    /\ probe = NoProbe

\* One iteration of the main loop: process_line on the next input line.
ProcessLine(line) ==
    /\ pc = "reading"
    /\ nlines < MaxLines
    /\ ~error
    /\ \E r \in {process_line(line, context, NoEffects)} :
       \E words \in {re_split(From(Stripped(line), Len(r.prefix)))} :
           /\ context' = r.context
           /\ error' = r.raised
           /\ output' = output \o r.eff.out
           /\ owner' = owner \o [i \in 1..Len(r.eff.out) |->
                                    IF i > r.mark /\ r.adopted THEN Len(blocks) + 1
                                    ELSE Len(blocks)]
           /\ blocks' = IF r.adopted THEN Append(blocks, r.prefix) ELSE blocks
           /\ inWords' = IF r.raised THEN inWords ELSE inWords \o RealWords(words)
           /\ last' = [op |-> "line", blank |-> ~r.raised /\ AllWhitespace(words),
                       before |-> context, first |-> Len(output) + 1,
                       adopted |-> r.adopted, resolved |-> r.resolved,
                       mark |-> Len(output) + r.mark, calls |-> r.eff.calls]
    /\ nlines' = nlines + 1
    /\ pc' = "reading"
    /\ UNCHANGED <<start, steps, probe>>

\* The end of the input: the final resolve_context.
Finish ==
    /\ pc = "reading"
    /\ ~error
    /\ \E r \in {resolve_context(context, NoEffects)} :
           /\ context' = r.context
           /\ output' = output \o r.eff.out
           /\ owner' = owner \o [i \in 1..Len(r.eff.out) |-> Len(blocks)]
           /\ last' = [op |-> "flush", blank |-> FALSE, before |-> context,
                       first |-> Len(output) + 1, adopted |-> FALSE,
                       resolved |-> r.context, mark |-> Len(output) + Len(r.eff.out),
                       calls |-> r.eff.calls]
    /\ pc' = "done"
    /\ UNCHANGED <<nlines, error, blocks, inWords, start, steps, probe>>

Next == (\E line \in Lines : ProcessLine(line)) \/ Finish

Spec == Init /\ [][Next]_vars

\* ------------------------------------------------- the program, step by step

\* The longest document read when the steps of process_words are followed.
MaxLinesPW == 2

\* The same program with every call of process_words followed step by step:
\* the entry of a call (up to the first word, which is always placed), each
\* turn of its while loop, and its return to the caller named by cont:
\* "line" (process_line, which returns to the main loop), "resolve" (the
\* resolve_context of the process_line working on pend) or "eof" (the final
\* resolve_context).

\* The calls of process_words that can be nested: the interpreter raises
\* RecursionError when its stack would hold more frames than its recursion
\* limit (1000 unless sys.setrecursionlimit is called, and ifmt.py never
\* calls it).  The frames of the callers of process_words and of the
\* functions it calls are not counted here, so that the interpreter raises
\* no later than the model does.
RecursionLimit == 1000

\* A call of process_words(given, ...) about to start, with depth the
\* number of calls of process_words then on the stack, this one included.
CallFrame(given, depth) ==
    [given |-> given, words |-> <<>>, word_index |-> 0, cols |-> 0, depth |-> depth]

\* process_words returns ctx: the caller goes on.
Return(ctx) ==
    CASE cont = "line" ->
            /\ context' = ctx
            /\ pc' = "reading"
            /\ frame' = NoFrame
            /\ cont' = "none"
            /\ pend' = NoLine
      [] cont = "resolve" ->
            /\ context' = AfterResolve([ctx EXCEPT !.flow = FlowAfterResolve(ctx.flow)],
                                       pend.prefix, TRUE)
            /\ pc' = "call"
            /\ frame' = CallFrame(pend.words, 1)
            /\ cont' = "line"
            /\ pend' = NoLine
      [] cont = "eof" ->
            /\ context' = [ctx EXCEPT !.flow = FlowAfterResolve(ctx.flow)]
            /\ pc' = "done"
            /\ frame' = NoFrame
            /\ cont' = "none"
            /\ pend' = NoLine

\* The main loop reads a line: process_line up to its first call of
\* process_words, made by resolve_context or by process_line itself.
ReadLine(raw) ==
    /\ pc = "reading"
    /\ ~error
    /\ nlines' = nlines + 1
    /\ doc' = Append(doc, raw)
    /\ LET line == Stripped(raw)
           prefix == guess_prefix(line)
           words == re_split(From(line, Len(prefix)))
           resolve == MustResolve(prefix, words, context)
       IN  IF prefix = Raised
           THEN /\ error' = TRUE
                /\ UNCHANGED <<context, pc, frame, cont, pend>>
           ELSE IF resolve /\ context.underflow # <<>>
           THEN /\ context' = [context EXCEPT !.flow = FALSE]
                /\ pc' = "call"
                /\ frame' = CallFrame(<<>>, 1)
                /\ cont' = "resolve"
                /\ pend' = [prefix |-> prefix, words |-> words]
                /\ error' = FALSE
           ELSE /\ context' = AfterResolve(context, prefix, resolve)
                /\ pc' = "call"
                /\ frame' = CallFrame(words, 1)
                /\ cont' = "line"
                /\ pend' = NoLine
                /\ error' = FALSE
    /\ UNCHANGED <<output, ghost, start, probe>>

\* The end of the input: the final resolve_context, which calls
\* process_words when there is underflow.
EndOfInput ==
    /\ pc = "reading"
    /\ ~error
    /\ IF context.underflow # <<>>
       THEN /\ context' = [context EXCEPT !.flow = FALSE]
            /\ pc' = "call"
            /\ frame' = CallFrame(<<>>, 1)
            /\ cont' = "eof"
       ELSE /\ pc' = "done"
            /\ UNCHANGED <<context, frame, cont>>
    /\ UNCHANGED <<output, nlines, error, ghost, start, pend, doc, probe>>

\* The entry of process_words: the underflow is put in front, an empty list
\* is printed as the prefix alone, and otherwise the prefix and the first
\* word are given their columns.
Enter ==
    /\ pc = "call"
    /\ LET words == Prepend(context.underflow, frame.given)
           ctx == [context EXCEPT !.underflow = <<>>]
           c0 == IF ctx.prefix # <<>> THEN add_cols(ctx.prefix, 0, ctx) ELSE 0
       IN  IF Len(words) = 0
           THEN /\ output' = Append(output, print_words_as_line(words, ctx))
                /\ Return(ctx)
           ELSE /\ context' = ctx
                /\ frame' = [given |-> frame.given, words |-> words, word_index |-> 0,
                             cols |-> add_cols(words[1], c0, ctx), depth |-> frame.depth]
                /\ pc' = "loop"
                /\ UNCHANGED <<output, cont, pend>>
    /\ UNCHANGED <<nlines, error, ghost, start, doc, probe>>

\* One turn of the while loop of process_words.  The recursive call is
\* made after the line is written; when the stack is full it raises, and
\* the exception, which nothing catches, ends the run.
Turn ==
    /\ pc = "loop"
    /\ LET words == frame.words
           word_index == frame.word_index + 1
       IN  IF word_index >= Len(words)
           THEN /\ error' = error
                /\ IF Defers(context)
                   THEN /\ Return([context EXCEPT !.underflow = Deferred(words)])
                        /\ output' = output
                   ELSE /\ Return(context)
                        /\ output' = Append(output, print_words_as_line(words, context))
           ELSE
           LET cols == add_cols(words[word_index + 1], frame.cols, context) IN
           IF NoRoom(cols, context)
           THEN LET rest == SkipWords(words, word_index)
                    ctx == [context EXCEPT !.prefix = next_prefix(context.prefix)]
                IN  /\ output' = Append(output,
                           print_words_as_line(Slice(words, 0, word_index), context))
                    /\ IF rest >= Len(words)
                       THEN /\ Return(ctx)
                            /\ error' = error
                       ELSE IF frame.depth >= RecursionLimit
                       THEN /\ error' = TRUE
                            /\ pc' = "raised"
                            /\ context' = ctx
                            /\ UNCHANGED <<frame, cont, pend>>
                       ELSE /\ context' = ctx
                            /\ pc' = "call"
                            /\ frame' = CallFrame(Remaining(words, rest), frame.depth + 1)
                            /\ error' = error
                            /\ UNCHANGED <<cont, pend>>
           ELSE /\ frame' = [frame EXCEPT !.word_index = word_index, !.cols = cols]
                /\ UNCHANGED <<context, output, pc, cont, pend, error>>
    /\ UNCHANGED <<nlines, ghost, start, doc, probe>>

NextPW ==
    \/ nlines < MaxLinesPW /\ \E line \in Lines : ReadLine(line)
    \/ EndOfInput
    \/ Enter
    \/ Turn

\* Nothing but the program itself decides when a step is taken: a step that
\* can be taken is taken.
SpecPW == Init /\ [][NextPW]_vars /\ WF_vars(NextPW)

\* Whenever no call is running, the steps have done what process_line and
\* resolve_context do as a whole.
StepsAgree ==
    LET r == ProcessLines(doc, start, NoEffects)
        f == resolve_context(r.context, r.eff)
    IN  /\ (pc = "reading" /\ ~error) => (context = r.context /\ output = r.eff.out)
        /\ pc = "done" => (context = f.context /\ output = f.eff.out)

\* ------------------------------------------------------------- a long line

\* The longest document read when a line is long.
MaxLinesDeep == 1

\* A line of n one-letter words with one space between them.
DeepLine(n) == [i \in 1..(2 * n - 1) |-> IF i % 2 = 1 THEN "a" ELSE " "]

\* A short line, and a line of one word more than process_words can be
\* nested.
DeepLines == {DeepLine(2), DeepLine(RecursionLimit + 1)}

\* ifmt.py -w 1 and ifmt.py -w 1 -f: every word has a line of its own.
InitDeep ==
    /\ \E f \in BOOLEAN : start = StartContext(f, FALSE, 1, 2, FALSE)
    /\ context = start
    /\ output = <<>>
    /\ pc = "reading"
    /\ nlines = 0
    /\ error = FALSE
    /\ owner = <<>>
    /\ blocks = <<<<>>>>
    /\ inWords = <<>>
    /\ last = NoLast
    /\ frame = NoFrame
    /\ cont = "none"
    /\ pend = NoLine
    /\ doc = <<>>
    /\ probe = NoProbe

NextDeep ==
    \/ nlines < MaxLinesDeep /\ \E line \in DeepLines : ReadLine(line)
    \/ EndOfInput
    \/ Enter
    \/ Turn

SpecDeep == InitDeep /\ [][NextDeep]_vars

\* ------------------------------------------------------------- guess_prefix

\* The longest indent of a line given to guess_prefix.
MaxIndent == 2

RECURSIVE Indents(_)
\* The runs of at most n whitespace characters.
Indents(n) ==
    IF n = 0 THEN {<<>>}
    ELSE Indents(n - 1) \cup {Append(i, c) : i \in Indents(n - 1), c \in Whitespace}

\* What follows the indent: a preprocessor directive, another '#' word, a
\* comment mark, a bullet, a word.
Heads == {<<"#", "i", "f", "n", "d", "e", "f">>, <<"#", "i", "f", "d", "e", "f">>,
          <<"#", "e", "n", "d", "i", "f">>, <<"#", "i", "f">>, <<"#">>, <<"#", " ">>,
          <<"/", "/">>, <<"/", "/", " ">>, <<"*">>, <<"*", " ">>, <<"a">>}
Rests == {<<>>, <<"X">>, <<" ", "X">>}

ProbeLines == {i \o h \o r : i \in Indents(MaxIndent), h \in Heads, r \in Rests}

InitGP ==
    /\ \E l \in ProbeLines : probe = [line |-> l, prefix |-> <<>>, called |-> FALSE]
    /\ start = StartContext(FALSE, FALSE, 4, 2, FALSE)
    /\ context = start
    /\ output = <<>>
    /\ pc = "reading"
    /\ nlines = 0
    /\ error = FALSE
    /\ owner = <<>>
    /\ blocks = <<<<>>>>
    /\ inWords = <<>>
    /\ last = NoLast
    /\ frame = NoFrame
    /\ cont = "none"
    /\ pend = NoLine
    /\ doc = <<>>

\* The first two statements of process_line on the line: the trailing
\* whitespace is dropped and the prefix is guessed.
GuessPrefix ==
    /\ ~probe.called
    /\ probe' = [probe EXCEPT !.prefix = guess_prefix(Stripped(probe.line)),
                              !.called = TRUE]
    /\ UNCHANGED <<context, output, pc, nlines, error, ghost, start, steps>>

SpecGP == InitGP /\ [][GuessPrefix]_vars

\* ------------------------------------------------------------------ claims

\* The columns a physical line occupies, tabs counted to the next tab stop.
LineCols(rec) == add_cols(LineText(rec), 0, context)

\* The words written after the prefixes of all the output lines.
OutWords == Concat([i \in 1..Len(output) |-> output[i].words])

\* C1: once the document is finished, running the program again on its
\* output, with the same configuration, gives the same output.  Stated for
\* the configurations the property is claimed of at the least: neither flow
\* nor justification (nor --code, which sets flow line by line).
C1_Idempotent ==
    (pc = "done" /\ ~start.flow /\ ~start.justify /\ ~start.code)
    => Format(Texts(output), start) = Texts(output)

\* The same, for the documents in which no line is a bullet.
C1_IdempotentNoBullet ==
    (pc = "done" /\ ~start.flow /\ ~start.justify /\ ~start.code
        /\ \A b \in 1..Len(blocks) : \A k \in 1..Len(blocks[b]) : blocks[b][k] # "*")
    => Format(Texts(output), start) = Texts(output)

\* C2: without justification every physical line occupies at most width
\* columns, except a line of a single token whose own width exceeds width.
C2_WidthBound ==
    ~context.justify =>
        \A i \in 1..Len(output) :
            \/ LineCols(output[i]) <= context.width
            \/ /\ Len(output[i].words) = 1
               /\ add_cols(output[i].words[1], 0, context) > context.width

\* C2 as amended: without justification every physical line occupies at
\* most width columns, except a line of the prefix and at most one token
\* that together exceed width.
C2_WidthBoundAfterPrefix ==
    ~context.justify =>
        \A i \in 1..Len(output) :
            \/ LineCols(output[i]) <= context.width
            \/ Len(output[i].words) <= 1

\* A line wider than width has been written without justification.
C2_Witness ==
    /\ ~context.justify
    /\ \E i \in 1..Len(output) : LineCols(output[i]) > context.width
    /\ \E i \in 1..Len(output) : Len(output[i].words) >= 3

\* C3: an all-whitespace input line makes the pending underflow be written
\* and is then written itself, at once, as a line of just the prefix;
\* nothing of it is kept back as underflow.
C3_BlankSeparates ==
    (last.op = "line" /\ last.blank) =>
        /\ last.before.underflow # <<>> => last.mark >= last.first
        /\ context.underflow = <<>>
        /\ Len(output) = last.mark + 1
        /\ LineText(output[Len(output)]) = context.prefix

\* C4: a justified line of at least two words and a deficit >= 0 occupies
\* exactly width columns, prefix included.
C4_JustifyExact ==
    \A i \in 1..Len(output) :
        (/\ output[i].just
         /\ Len(RealWords(output[i].slice)) >= 2
         /\ output[i].deficit >= 0)
        => LineCols(output[i]) = context.width

\* C5: every output line of the block of a bulleted line, after the first,
\* begins with the bullet prefix with every '*' replaced by a space.
C5_BulletContinuation ==
    \A i \in 2..Len(output) :
        (/\ owner[i] = owner[i - 1]
         /\ \E k \in 1..Len(blocks[owner[i]]) : blocks[owner[i]][k] = "*")
        => output[i].prefix = next_prefix(blocks[owner[i]])

\* C8: underflow is there only when the call that stored it ran with flow
\* set; the first call of the next operation packs it in front of its own
\* words and clears it; and a resolve_context leaves no underflow and the
\* flow flag as it found it.
C8_Underflow ==
    /\ context.underflow # <<>> =>
          /\ last.op = "line"
          /\ last.calls[Len(last.calls)].flow
    /\ \A j \in 1..Len(last.calls) :
          /\ last.calls[j].packed = last.calls[j].underflow \o last.calls[j].given
          /\ last.calls[j].underflow = IF j = 1 THEN last.before.underflow ELSE <<>>
    /\ (last.adopted \/ last.op = "flush") =>
          /\ last.resolved.underflow = <<>>
          /\ last.resolved.flow = last.before.flow
    /\ pc = "done" => context.underflow = <<>> /\ context.flow = last.before.flow

\* A final resolve_context has written an underflow.
C8_Witness ==
    /\ pc = "done"
    /\ last.before.underflow # <<>>
    /\ nlines >= 2

\* C9: when a justified line has a first word and a deficit > 0, every
\* filler space is inserted at an index >= 1.
C9_FirstWordUntouched ==
    \A i \in 1..Len(output) :
        (output[i].just /\ output[i].n >= 1 /\ output[i].deficit > 0)
        => \A k \in 1..Len(output[i].fills) : output[i].fills[k] >= 1

\* C10: the non-whitespace words written, followed by those still held as
\* underflow, are the non-whitespace words read, in the same order.
C10_WordsPreserved ==
    /\ RealWords(OutWords) \o RealWords(context.underflow) = inWords
    /\ pc = "done" => RealWords(OutWords) = inWords

\* A finished run that wrapped a line and carried underflow over.
C10_Witness ==
    /\ pc = "done"
    /\ context.flow
    /\ Len(output) >= 2
    /\ Len(inWords) >= 3
    /\ last.before.underflow # <<>>

\* Whether the first non-whitespace text of the line begins with text.
BeginsWith(line, text) ==
    LET i == SkipWs(line, 0) IN Slice(line, i, i + Len(text)) = text

\* C6: for a line whose first non-whitespace text begins with #ifndef,
\* #ifdef or #endif, guess_prefix returns the empty prefix.
C6_DirectiveProtected ==
    (/\ probe.called
     /\ \/ BeginsWith(probe.line, <<"#", "i", "f", "n", "d", "e", "f">>)
        \/ BeginsWith(probe.line, <<"#", "i", "f", "d", "e", "f">>)
        \/ BeginsWith(probe.line, <<"#", "e", "n", "d", "i", "f">>))
    => probe.prefix = <<>>

\* What is left to do, greatest first: the input lines not yet read; the
\* callers still to return to; the words the running call has not placed;
\* and whether the call has still to start.
Measure ==
    <<MaxLinesPW - nlines,
      CASE pc \in {"done", "raised"} -> 0
        [] cont = "eof" -> 1
        [] pc = "reading" -> 2
        [] cont = "line" -> 3
        [] cont = "resolve" -> 4,
      IF pc = "call" THEN Len(context.underflow) + Len(frame.given)
      ELSE Len(frame.words) - frame.word_index,
      IF pc = "call" THEN 1 ELSE 0>>

RECURSIVE LexLess(_, _)
\* The lexicographic order of tuples of naturals of the same length.
LexLess(a, b) ==
    /\ a # <<>>
    /\ \/ Head(a) < Head(b)
       \/ Head(a) = Head(b) /\ LexLess(Tail(a), Tail(b))

\* C7: no run raises: process_words ends without raising for every finite
\* list of words and every context with width >= 1 and tabstop >= 1.
C7_NeverRaises == ~error

\* What holds of C7 for the documents of Lines, which are far from the
\* recursion limit.  Every step leaves less to do, so that every run
\* reaches the end of the final resolve_context.
C7_Decreases == LexLess(Measure', Measure)

\* Every recursive call of process_words is given fewer words than the call
\* that makes it had.
C7_ShorterCall ==
    (pc = "loop" /\ pc' = "call" /\ cont' = cont)
    => Len(frame'.given) < Len(frame.words)

\* Every line written from the loop holds at least the first word, and a
\* line too wide holds one word alone.
C7_FirstWordPlaced ==
    (pc = "loop" /\ Len(output') > Len(output)) =>
        LET rec == output'[Len(output')]
        IN  /\ Len(rec.slice) >= 1
            /\ rec.slice[1] = frame.words[1]
            /\ (~rec.just /\ add_cols(LineText(rec), 0, context) > context.width)
                   => Len(rec.words) <= 1

\* For the documents of Lines no run raises and every run ends.
TerminatesShortOfLimit ==
    /\ [](~error)
    /\ [][C7_Decreases]_vars
    /\ [][C7_ShorterCall]_vars
    /\ [][C7_FirstWordPlaced]_vars

\* A run in which process_words has called itself has ended.
ShortOfLimitWitness ==
    /\ pc = "done"
    /\ Len(output) >= 2
    /\ \E i \in 1..Len(output) :
          add_cols(LineText(output[i]), 0, context) > context.width

====
